---- MODULE Spec2Model ----
(***************************************************************************)
(* Model of the metric workers of internal/metrics: the explicit-bounds    *)
(* histogram worker, the exponential histogram worker and the sum, gauge   *)
(* and up-down-counter workers, with their running aggregation state, the  *)
(* exemplar list, the ticker and the context they select on, and of the    *)
(* Simulate functions and Worker.Run that validate the configuration,      *)
(* start the worker function and wait for it; and of Run of                *)
(* internal/traces and of internal/logs with the worker goroutines they    *)
(* start.                                                                  *)
(*                                                                         *)
(* float64 values are fixed-point integers counting tenths (Unit = 10):    *)
(* 0.5 is 5, 3 is 30, 18.5 is 185.  Sums of such values are exact, as they *)
(* are in float64 for the magnitudes used here.  Timestamps are integers   *)
(* (one unit per step of the clock).  A slice or map created with make is  *)
(* an object of the heap and a variable holding it holds its address, so   *)
(* that a data point built from bucketCounts shares the object with the    *)
(* worker exactly as the Go value does.  The exemplar slice is modelled by *)
(* value: append and exemplars[1:] never overwrite an element that an      *)
(* earlier slice header can see.  The random IDs of data points and        *)
(* exemplars (uuid, trace id, span id, attribute) are left out.            *)
(*                                                                         *)
(* Times and durations are integers counting milliseconds.  A pointer (the *)
(* *Config handed to a Simulate function, the *time.Ticker of a worker,    *)
(* the deadline of a context) is a sequence of length at most one: << >>   *)
(* is nil, <<x>> points to x.  Config.Rate is a float64 and is counted in  *)
(* tenths like the values.  The logarithms, the quotient and the product   *)
(* of mapToIndex are float64 numbers with their 53-bit mantissa, rounded   *)
(* as IEEE 754 rounds them.                                                *)
(***************************************************************************)
EXTENDS Integers, Sequences, FiniteSets, TLC

VARIABLES kind, config, conf, c, err, pc, now, tick, ticker, deadline, ctxDone,
          startTime, count, sum, minVal, maxVal, zeroCount,
          bucketCounts, positiveBuckets, negativeBuckets, heap,
          exemplars, i, value, bucketIndex, index,
          dataPoints, recorded, steps, mp, goroutines, workers, totalLogs

vars == <<kind, config, conf, c, err, pc, now, tick, ticker, deadline, ctxDone,
          startTime, count, sum, minVal, maxVal, zeroCount,
          bucketCounts, positiveBuckets, negativeBuckets, heap,
          exemplars, i, value, bucketIndex, index,
          dataPoints, recorded, steps, mp, goroutines, workers, totalLogs>>

(***************************************************************************)
(* Bounds of the model.                                                    *)
(***************************************************************************)
MaxRecords == 3
MaxTime == 3
MaxPushes == 15
MaxTicks == 11
MaxIdle == 1
MaxScenario == 4
MaxBounds == 3
MaxRun == 2
MaxPasses == 3
MaxLogs == 3

(***************************************************************************)
(* Representation and program constants.                                   *)
(***************************************************************************)
Unit == 10
MaxExemplars == 10
MaxFloat64 == 1000000
Millisecond == 1
Second == 1000 * Millisecond

Abs(x) == IF x < 0 THEN -x ELSE x

RECURSIVE Pow(_, _)
Pow(b, e) == IF e = 0 THEN 1 ELSE b * Pow(b, e - 1)

RECURSIVE SumSeq(_)
SumSeq(s) == IF s = << >> THEN 0 ELSE Head(s) + SumSeq(Tail(s))

RECURSIVE SumMap(_)
SumMap(m) ==
    IF DOMAIN m = {} THEN 0
    ELSE LET k == CHOOSE x \in DOMAIN m : TRUE
         IN m[k] + SumMap([x \in DOMAIN m \ {k} |-> m[x]])

EmptyMap == [k \in {} |-> 0]

Zeros(n) == [k \in 1..n |-> 0]

(***************************************************************************)
(* findBucket: linear scan over the bounds, first bound the value does not *)
(* exceed; len(bounds) when there is none.  Indexes are 0-based as in Go.  *)
(***************************************************************************)
\* mutant: a value equal to a bound goes to the upper bucket
findBucketStrict(v, bounds) ==
    LET RECURSIVE scan(_)
        scan(k) == IF k > Len(bounds) THEN Len(bounds)
                   ELSE IF v < bounds[k] THEN k - 1
                   ELSE scan(k + 1)
    IN scan(1)

\* mutant: the scan starts at the second bound
findBucketSkipFirst(v, bounds) ==
    LET RECURSIVE scan(_)
        scan(k) == IF k > Len(bounds) THEN Len(bounds)
                   ELSE IF v <= bounds[k] THEN k - 1
                   ELSE scan(k + 1)
    IN scan(2)

findBucket(v, bounds) ==
    LET RECURSIVE scan(_)
        scan(k) == IF k > Len(bounds) THEN Len(bounds)
                   ELSE IF v <= bounds[k] THEN k - 1
                   ELSE scan(k + 1)
    IN scan(1)

(***************************************************************************)
(* FloorLog2(n, d) = floor(log2(n / d)) for n, d > 0: the largest e with   *)
(* 2^e * d <= n.                                                           *)
(***************************************************************************)
RECURSIVE Log2Up(_, _, _)
Log2Up(n, d, e) == IF 2 * d <= n THEN Log2Up(n, 2 * d, e + 1) ELSE e

RECURSIVE Log2Down(_, _, _)
Log2Down(n, d, e) == IF d <= n THEN e ELSE Log2Down(2 * n, d, e - 1)

FloorLog2(n, d) == IF d <= n THEN Log2Up(n, d, 0) ELSE Log2Down(n, d, 0)

(***************************************************************************)
(* float64 arithmetic.  A natural number is a sequence of limbs, least     *)
(* significant first, each below Limb; a float64 is its sign, its 53-bit   *)
(* mantissa as such a number and its exponent: (-1)^neg * m * 2^e, with    *)
(* m = 0 for the value 0.  Products and quotients are rounded to the       *)
(* nearest mantissa, ties to even, as the hardware rounds them.            *)
(***************************************************************************)
Limb == 4096
LimbBits == 12
MantissaBits == 53
Radix == 16
RadixBits == 4
GuardDigits == 14

Reverse(s) == [k \in 1..Len(s) |-> s[Len(s) + 1 - k]]

LimbAt(a, k) == IF k <= Len(a) THEN a[k] ELSE 0

RECURSIVE Carry(_, _)
Carry(cols, carry) ==
    IF cols = << >>
    THEN IF carry = 0 THEN << >>
         ELSE <<carry % Limb>> \o Carry(<< >>, carry \div Limb)
    ELSE <<(Head(cols) + carry) % Limb>>
         \o Carry(Tail(cols), (Head(cols) + carry) \div Limb)

RECURSIVE Column(_, _, _, _)
Column(a, b, k, j) ==
    IF j > Len(a) THEN 0
    ELSE (IF k + 1 - j \in 1..Len(b) THEN a[j] * b[k + 1 - j] ELSE 0)
         + Column(a, b, k, j + 1)

MulNat(a, b) == Carry([k \in 1..(Len(a) + Len(b) - 1) |-> Column(a, b, k, 1)], 0)

\* a * g + carry for small g and carry
ScaleAdd(a, g, carry) == Carry([k \in 1..Len(a) |-> g * a[k]], carry)

RECURSIVE GeqFrom(_, _, _)
GeqFrom(a, b, k) ==
    IF k = 0 THEN TRUE
    ELSE IF LimbAt(a, k) # LimbAt(b, k) THEN LimbAt(a, k) > LimbAt(b, k)
    ELSE GeqFrom(a, b, k - 1)

Geq(a, b) == GeqFrom(a, b, IF Len(a) > Len(b) THEN Len(a) ELSE Len(b))

\* a - b for a >= b
RECURSIVE Borrow(_, _, _, _)
Borrow(a, b, k, borrow) ==
    IF k > Len(a) THEN << >>
    ELSE LET t == a[k] - LimbAt(b, k) - borrow
         IN <<IF t < 0 THEN t + Limb ELSE t>>
            \o Borrow(a, b, k + 1, IF t < 0 THEN 1 ELSE 0)

Minus(a, b) == Borrow(a, b, 1, 0)

RECURSIVE BitsOf(_)
BitsOf(n) == IF n = 0 THEN 0 ELSE 1 + BitsOf(n \div 2)

RECURSIVE BitLen(_)
BitLen(a) ==
    IF a = << >> THEN 0
    ELSE IF a[Len(a)] = 0 THEN BitLen(SubSeq(a, 1, Len(a) - 1))
    ELSE LimbBits * (Len(a) - 1) + BitsOf(a[Len(a)])

Bit(a, j) == (LimbAt(a, j \div LimbBits + 1) \div Pow(2, j % LimbBits)) % 2

AnyBelow(a, n) == \E j \in 0..(n - 1) : Bit(a, j) = 1

\* floor(a / 2^n)
ShiftRight(a, n) ==
    LET q == n \div LimbBits
        r == n % LimbBits
    IN [k \in 1..(Len(a) - q) |->
           a[k + q] \div Pow(2, r)
           + (LimbAt(a, k + q + 1) % Pow(2, r)) * Pow(2, LimbBits - r)]

RECURSIVE ToInt(_)
ToInt(a) == IF a = << >> THEN 0 ELSE Head(a) + Limb * ToInt(Tail(a))

\* the literal of a float64: its mantissa is written most significant limb first
Float64(neg, mantissa, e) == [neg |-> neg, m |-> Reverse(mantissa), e |-> e]

IsZero(x) == BitLen(x.m) = 0

\* p * 2^e, p of more than MantissaBits bits, rounded to nearest, ties to even
Round(neg, p, e) ==
    LET s == BitLen(p) - MantissaBits
        q == ShiftRight(p, s)
        up == Bit(p, s - 1) = 1 /\ (AnyBelow(p, s - 1) \/ Bit(q, 0) = 1)
        r == IF up THEN ScaleAdd(q, 1, 1) ELSE q
    IN IF BitLen(r) > MantissaBits
       THEN [neg |-> neg, m |-> ShiftRight(r, 1), e |-> e + s + 1]
       ELSE [neg |-> neg, m |-> r, e |-> e + s]

\* x * y
MulFloat(x, y) ==
    IF IsZero(x) \/ IsZero(y) THEN [neg |-> FALSE, m |-> << >>, e |-> 0]
    ELSE Round(x.neg # y.neg, MulNat(x.m, y.m), x.e + y.e)

\* one more digit of the quotient st.q, from the remainder st.r < d
DivisionStep(st, d) ==
    LET g == CHOOSE g \in 0..(Radix - 1) :
                 /\ Geq(ScaleAdd(st.r, Radix, 0), ScaleAdd(d, g, 0))
                 /\ ~Geq(ScaleAdd(st.r, Radix, 0), ScaleAdd(d, g + 1, 0))
    IN [q |-> ScaleAdd(st.q, Radix, g),
        r |-> Minus(ScaleAdd(st.r, Radix, 0), ScaleAdd(d, g, 0))]

\* n more digits of the quotient by d, after the digits and the remainder of st
RECURSIVE LongDivision(_, _, _)
LongDivision(st, d, n) ==
    IF n = 0 THEN st
    ELSE CHOOSE next \in {DivisionStep(s, d) : s \in {LongDivision(st, d, n - 1)}} :
             TRUE

\* x / y for y # 0: the quotient of the mantissas down to GuardDigits digits
\* below the unit, and a sticky bit for the remainder
DivFloat(x, y) ==
    IF IsZero(x) THEN [neg |-> FALSE, m |-> << >>, e |-> 0]
    ELSE LET first == Geq(x.m, y.m)
             start == [q |-> IF first THEN <<1>> ELSE << >>,
                       r |-> IF first THEN Minus(x.m, y.m) ELSE x.m]
         IN CHOOSE z \in {Round(x.neg # y.neg,
                                ScaleAdd(d.q, 2, IF IsZero([m |-> d.r]) THEN 0 ELSE 1),
                                x.e - y.e - GuardDigits * RadixBits - 1) :
                          d \in {LongDivision(start, y.m, GuardDigits)}} : TRUE

\* math.Ldexp(x, n) = x * 2^n
Ldexp(x, n) == [x EXCEPT !.e = @ + n]

\* int32(math.Floor(x)), for |x| < 2^31
Floor(x) ==
    IF IsZero(x) THEN 0
    ELSE LET whole == ToInt(ShiftRight(x.m, -x.e))
         IN IF ~x.neg THEN whole
            ELSE IF AnyBelow(x.m, -x.e) THEN -(whole + 1)
            ELSE -whole

(***************************************************************************)
(* The library functions of package math, tabulated on the magnitudes and  *)
(* scales of the model and taken as correctly rounded.  Log(a) is          *)
(* math.Log of the float64 nearest to a / Unit; LogBase(scale) is math.Log *)
(* of base = math.Exp2(math.Exp2(-scale)), which is 16, 4, 2 and the       *)
(* float64 nearest to the square root of 2 for the scales -2, -1, 0, 1.    *)
(***************************************************************************)
Magnitudes == {1, 5, 10, 20, 30, 40, 80, 160, 320, 640, 1280}
MapScales == {-2, -1, 0, 1}

Ln2 == Float64(FALSE, <<\H016, \H2E4, \H2FE, \HFA3, \H9EF>>, -53)

Log(a) ==
    (1 :> Float64(TRUE, <<\H012, \H6BB, \H1BB, \HB55, \H515>>, -51) @@
     5 :> Float64(TRUE, <<\H016, \H2E4, \H2FE, \HFA3, \H9EF>>, -53) @@
     10 :> Float64(FALSE, <<0, 0, 0, 0, 0>>, 0) @@
     20 :> Ln2 @@
     30 :> Float64(FALSE, <<\H011, \H93E, \HA7A, \HAD0, \H30B>>, -52) @@
     40 :> Ldexp(Ln2, 1) @@
     80 :> Float64(FALSE, <<\H010, \HA2B, \H23F, \H3BA, \HB73>>, -51) @@
     160 :> Ldexp(Ln2, 2) @@
     320 :> Float64(FALSE, <<\H01B, \HB9D, \H3BE, \HB8C, \H86B>>, -51) @@
     640 :> Float64(FALSE, <<\H010, \HA2B, \H23F, \H3BA, \HB73>>, -50) @@
     1280 :> Float64(FALSE, <<\H013, \H687, \HA9F, \H1AF, \H2B1>>, -50))[a]

LogBase(scale) ==
    (-2 :> Ldexp(Ln2, 2) @@
     -1 :> Ldexp(Ln2, 1) @@
     0 :> Ln2 @@
     1 :> Float64(FALSE, <<\H016, \H2E4, \H2FE, \HFA3, \H9F0>>, -54))[scale]

\* math.Log2E = 1 / ln 2
Log2E == Float64(FALSE, <<\H017, \H154, \H765, \H2B8, \H2FE>>, -52)

(***************************************************************************)
(* mapToIndex: 0 for the value 0, else the floor of the float64 quotient   *)
(* math.Log(|value|) / math.Log(base), base = 2^(2^-scale), tabulated as   *)
(* quotientIndex.  The value is v / Unit.                                  *)
(***************************************************************************)
quotientIndex ==
    [a \in Magnitudes, scale \in MapScales |->
        Floor(DivFloat(Log(a), LogBase(scale)))]

\* mutant: the scale is ignored (base 2 whatever the scale)
mapToIndexNoScale(v, scale) ==
    IF v = 0 THEN 0 ELSE FloorLog2(Abs(v), Unit)

mapToIndex(v, scale) ==
    IF v = 0 THEN 0
    ELSE LET absValue == Abs(v)
         IN quotientIndex[absValue, scale]

(***************************************************************************)
(* The earlier version of mapToIndex: the floor of the float64 product     *)
(* math.Log(|value|) * scaleFactor, scaleFactor = Ldexp(Log2E, scale).     *)
(***************************************************************************)
productIndex ==
    [a \in Magnitudes, scale \in MapScales |->
        Floor(MulFloat(Log(a), Ldexp(Log2E, scale)))]

mapToIndexLdexp(v, scale) ==
    IF v = 0 THEN 0
    ELSE LET absValue == Abs(v)
         IN productIndex[absValue, scale]

(***************************************************************************)
(* generateExemplar: the exemplar of a value recorded at a time.           *)
(***************************************************************************)
generateExemplar(v, timestamp) == [Value |-> v, TimeUnix |-> timestamp]

(***************************************************************************)
(* exemplars = append(exemplars, exemplar); if len(exemplars) > 10 then    *)
(* exemplars = exemplars[1:].                                              *)
(***************************************************************************)
\* mutant: a full list drops the new exemplar instead of the oldest
pushExemplarKeepOldest(exs, exemplar) ==
    IF Len(exs) >= MaxExemplars THEN exs ELSE Append(exs, exemplar)

pushExemplar(exs, exemplar) ==
    LET appended == Append(exs, exemplar)
    IN IF Len(appended) > MaxExemplars THEN Tail(appended) ELSE appended

(***************************************************************************)
(* The values the generators can return, sampled on a grid of tenths.      *)
(***************************************************************************)
HistogramGrid == {-10, -1, 0, 5, 10, 30, 32, 120}
NoBoundsGrid == {0, 5, 120}
ExponentialGrid == {-30, -1, 0, 1, 5, 10, 30}
GaugeGrid == {0, 5, 10}

\* r.Float64() * 100 for no bounds, else r^1.5 * maxBound * 1.1, r in [0, 1)
generateHistogramValue(bounds) ==
    IF Len(bounds) = 0 THEN {v \in NoBoundsGrid : 0 <= v /\ v < 100 * Unit}
    ELSE LET maxBound == bounds[Len(bounds)]
         IN IF maxBound > 0 THEN {v \in HistogramGrid : 0 <= v /\ 10 * v < 11 * maxBound}
            ELSE IF maxBound = 0 THEN {0}
            ELSE {v \in HistogramGrid : v <= 0 /\ 10 * v > 11 * maxBound}

\* +-(ExpFloat64 * maxSize / 10), +-(r * zeroThreshold) or
\* +-(maxSize - r * maxSize / 100)
generateExponentialHistogramValue(maxSize, zeroThreshold) ==
    {v \in ExponentialGrid : maxSize # 0 \/ v = 0 \/ Abs(v) < Abs(zeroThreshold)}

\* center + amplitude * sin(t): anything between minVal and maxVal
generateGaugeValue(lo, hi) ==
    {v \in GaugeGrid : (lo <= v /\ v <= hi) \/ (hi <= v /\ v <= lo)}

(***************************************************************************)
(* The min and max updates of both histogram workers: the value replaces   *)
(* the running extreme when it lies beyond it or when it is the first      *)
(* sample of the window.                                                   *)
(***************************************************************************)
\* mutant: the first sample is compared with the zero-initialised minimum
newMinNoFirst(v, cur, first) == IF v < cur THEN v ELSE cur

newMin(v, cur, first) == IF v < cur \/ first THEN v ELSE cur

newMax(v, cur, first) == IF v > cur \/ first THEN v ELSE cur

\* mutant: a value equal to the threshold leaves the zero bucket
inZeroBucketStrict(v, zeroThreshold) == Abs(v) < zeroThreshold

\* math.Abs(value) <= config.ZeroThreshold
inZeroBucket(v, zeroThreshold) == Abs(v) <= zeroThreshold

\* bucketCounts[bucketIndex]++
incrementBucket(counts, idx) == [counts EXCEPT ![idx + 1] = @ + 1]

(***************************************************************************)
(* Configurations.  config holds the fields of HistogramConfig,            *)
(* ExponentialHistogramConfig, SumConfig and GaugeConfig the workers read; *)
(* c holds the fields of Config.                                           *)
(***************************************************************************)
Temporalities == {"Delta", "Cumulative"}

DefaultConfig ==
    [Temporality |-> "Cumulative", RecordMinMax |-> FALSE, Bounds |-> << >>,
     Scale |-> 0, MaxSize |-> 0, ZeroThreshold |-> 0,
     IsMonotonic |-> FALSE, Min |-> 0, Max |-> 0]

HistogramConfigs(boundsSet) ==
    {[DefaultConfig EXCEPT !.Temporality = t, !.RecordMinMax = m, !.Bounds = b] :
        t \in Temporalities, m \in BOOLEAN, b \in boundsSet}

ExponentialHistogramConfigs(scales, thresholds, sizes) ==
    {[DefaultConfig EXCEPT !.Temporality = t, !.RecordMinMax = m, !.Scale = s,
                           !.ZeroThreshold = z, !.MaxSize = x] :
        t \in Temporalities, m \in BOOLEAN, s \in scales, z \in thresholds,
        x \in sizes}

SumConfigs ==
    {[DefaultConfig EXCEPT !.Temporality = t, !.IsMonotonic = m] :
        t \in Temporalities, m \in BOOLEAN}

GaugeConfigs(maxes) ==
    {[DefaultConfig EXCEPT !.Temporality = t, !.Max = x] :
        t \in Temporalities, x \in maxes}

UpDownCounterConfigs == {DefaultConfig}

\* NewConfig: the defaults of Config (the fields Validate and the workers read)
NewConfig ==
    [WorkerCount |-> 1, NumMetrics |-> 1, Rate |-> 1 * Unit, TotalDuration |-> 0,
     ServiceName |-> "trazr-gen", Output |-> "terminal"]

Configs(rates) == {[NewConfig EXCEPT !.Rate = r] : r \in rates}

\* mutant: a rate of zero is rejected
ValidateRejectsZeroRate(cf) ==
    IF cf = << >> THEN "config is nil"
    ELSE IF cf[1].WorkerCount < 0 THEN "worker count must be positive"
    ELSE IF cf[1].NumMetrics < 0 THEN "num metrics must be non-negative"
    ELSE IF cf[1].Rate <= 0 THEN "rate must be positive"
    ELSE IF cf[1].TotalDuration < 0 THEN "total duration must be non-negative"
    ELSE IF cf[1].ServiceName = "" THEN "service name must not be empty"
    ELSE IF cf[1].Output = "" THEN "output must not be empty"
    ELSE "nil"

\* (*Config).Validate: the message of the error returned, "nil" for none
Validate(cf) ==
    IF cf = << >> THEN "config is nil"
    ELSE IF cf[1].WorkerCount < 0 THEN "worker count must be positive"
    ELSE IF cf[1].NumMetrics < 0 THEN "num metrics must be non-negative"
    ELSE IF cf[1].Rate < 0 THEN "rate must be positive"
    ELSE IF cf[1].TotalDuration < 0 THEN "total duration must be non-negative"
    ELSE IF cf[1].ServiceName = "" THEN "service name must not be empty"
    ELSE IF cf[1].Output = "" THEN "output must not be empty"
    ELSE "nil"

\* time.Duration(c.Rate): the float64 loses its fraction
Duration(rate) == IF rate >= 0 THEN rate \div Unit ELSE -((-rate) \div Unit)

\* mutant: every worker multiplies where it should divide
tickerPeriodTimes(k, rate) == Duration(rate) * Second

\* the argument of time.NewTicker: time.Second / time.Duration(c.Rate), and
\* time.Duration(c.Rate) * time.Second in the exponential histogram worker
tickerPeriod(k, rate) ==
    IF k = "exponentialHistogram" THEN Duration(rate) * Second
    ELSE Second \div Duration(rate)

\* the creation of the ticker panics: time.Second / time.Duration(c.Rate) is
\* an integer division by zero when the rate truncates to 0, and
\* time.NewTicker panics when its argument is not positive
tickerPanics(k, rate) ==
    IF k = "exponentialHistogram" THEN Duration(rate) * Second <= 0
    ELSE Duration(rate) = 0 \/ Second \div Duration(rate) <= 0

\* the MeterProvider handed to the worker: whether creating the instrument
\* (Float64Histogram, Int64Counter, Float64ObservableGauge,
\* Int64UpDownCounter) returns an error
MeterProviders == {[instrumentErr |-> e] : e \in BOOLEAN}

\* time.NewTicker(d): the first tick comes d after the creation
NewTicker(d, t) == <<[period |-> d, next |-> t + d]>>

\* context.WithTimeout(parent, d) at time t: the earlier of the two deadlines
WithTimeout(parent, d, t) ==
    IF parent = << >> \/ t + d < parent[1] THEN <<t + d>> ELSE parent

(***************************************************************************)
(* The state before the worker function runs: nothing recorded, the heap   *)
(* empty, the ticker not yet created, the context live.                    *)
(***************************************************************************)
InitState(k, configs) ==
    /\ kind = k
    /\ config \in configs
    /\ err = "pending"
    /\ now = 0
    /\ tick = 0
    /\ ticker = << >>
    /\ deadline = << >>
    /\ ctxDone = FALSE
    /\ startTime = 0
    /\ count = 0
    /\ sum = 0
    /\ minVal = 0
    /\ maxVal = 0
    /\ zeroCount = 0
    /\ bucketCounts = 0
    /\ positiveBuckets = 0
    /\ negativeBuckets = 0
    /\ heap = << >>
    /\ exemplars = << >>
    /\ i = 0
    /\ value = 0
    /\ bucketIndex = 0
    /\ index = 0
    /\ dataPoints = << >>
    /\ recorded = << >>
    /\ steps = << >>
    /\ workers = << >>
    /\ totalLogs = 0

\* a worker function started by Worker.Run with a MeterProvider that creates
\* the instrument
InitWorker(k, configs, rates) ==
    /\ InitState(k, configs)
    /\ c \in Configs(rates)
    /\ conf = <<c>>
    /\ pc = "start"
    /\ mp = [instrumentErr |-> FALSE]
    /\ goroutines = 1

\* mutants: the state is never reset, or reset under both temporalities
neverReset == FALSE

alwaysReset == TRUE

\* config.Temporality == metricdata.DeltaTemporality
shouldReset == config.Temporality = "Delta"

stateVars == <<startTime, count, sum, minVal, maxVal, zeroCount,
               bucketCounts, positiveBuckets, negativeBuckets, heap,
               exemplars, i, value, bucketIndex, index, dataPoints, recorded,
               steps>>

cfgVars == <<kind, config, conf, c, err, mp, goroutines, workers, totalLogs>>

(***************************************************************************)
(* The environment: the clock advances and the ticker, once created,       *)
(* delivers a tick into its channel of capacity 1; the context is          *)
(* cancelled or reaches its deadline.                                      *)
(***************************************************************************)
hasTicker == pc \in {"loop", "wait"} /\ ticker # << >>

\* the first tick time of the ticker after time t
nextTick(t) ==
    LET tk == ticker[1]
    IN tk.next + tk.period * ((t - tk.next) \div tk.period + 1)

\* the next reading of the clock short of the deadline: the next tick of the
\* ticker, one second on when there is no ticker; none once the clock has run
\* for limit seconds
tickTimes(limit) ==
    IF now < limit * Second
    THEN {IF hasTicker THEN ticker[1].next ELSE now + Second}
    ELSE {}

\* the clock moves to the next tick or straight to the deadline of the
\* context; a tick whose time has come is in the channel, a deadline whose
\* time has come closes Done
Tick(limit) ==
    /\ \E t \in tickTimes(limit) \cup {deadline[k] : k \in DOMAIN deadline} :
          /\ t > now
          /\ now' = t
          /\ IF hasTicker /\ t >= ticker[1].next
             THEN /\ tick' = 1
                  /\ ticker' = <<[ticker[1] EXCEPT !.next = nextTick(t)]>>
             ELSE UNCHANGED <<tick, ticker>>
          /\ ctxDone' = (ctxDone \/ (deadline # << >> /\ t >= deadline[1]))
    /\ UNCHANGED <<cfgVars, pc, deadline, stateVars>>

Cancel ==
    /\ ~ctxDone
    /\ pc # "done"
    /\ ctxDone' = TRUE
    /\ UNCHANGED <<cfgVars, pc, now, tick, ticker, deadline, stateVars>>

(***************************************************************************)
(* The explicit-bounds histogram worker.                                   *)
(***************************************************************************)
histogramStart ==
    /\ kind = "histogram"
    /\ pc = "start"
    /\ IF Validate(<<c>>) # "nil" \/ c.Rate < 0 \/ mp.instrumentErr
       THEN /\ pc' = "done"
            /\ UNCHANGED <<ticker, deadline, startTime, heap, bucketCounts>>
       ELSE IF c.Rate > 0 /\ tickerPanics(kind, c.Rate)
       THEN /\ pc' = "panic"
            /\ UNCHANGED <<ticker, deadline, startTime, heap, bucketCounts>>
       ELSE /\ pc' = "loop"
            /\ ticker' = IF c.Rate > 0
                         THEN NewTicker(tickerPeriod(kind, c.Rate), now)
                         ELSE ticker
            /\ deadline' = IF c.TotalDuration > 0
                           THEN WithTimeout(deadline, c.TotalDuration, now)
                           ELSE deadline
            /\ startTime' = now
            /\ heap' = Append(heap, Zeros(Len(config.Bounds) + 1))
            /\ bucketCounts' = Len(heap) + 1
    /\ UNCHANGED <<cfgVars, now, tick, ctxDone, count, sum, minVal, maxVal,
                   zeroCount, positiveBuckets, negativeBuckets, exemplars, i,
                   value, bucketIndex, index, dataPoints, recorded, steps>>

histogramStop ==
    /\ kind = "histogram"
    /\ pc = "loop"
    /\ ctxDone
    /\ pc' = "done"
    /\ UNCHANGED <<cfgVars, now, tick, ticker, deadline, ctxDone, stateVars>>

\* mutant: the state is reset before the data point is built
histogramStepsResetFirst ==
    <<"count", "minmax", "bucket", "exemplar">>
        \o (IF shouldReset THEN <<"reset">> ELSE << >>) \o <<"snapshot", "emit">>

\* the operations of one pass in the order of their lines: count and sum
\* (295-296), min and max (299-306), the bucket counter (308-309), the
\* exemplar (312-318), the data point (336-347), the reset (349-358) and the
\* call of processHistogramDataPoint (360)
histogramSteps ==
    <<"count", "minmax", "bucket", "exemplar", "snapshot">>
        \o (IF shouldReset THEN <<"reset">> ELSE << >>) \o <<"emit">>

\* one pass of the loop body: lines 294 to 360
histogramRecord(v) ==
    LET count1 == count + 1
        sum1 == sum + v
        currentTime == now
        min1 == IF config.RecordMinMax THEN newMin(v, minVal, count1 = 1)
                ELSE minVal
        max1 == IF config.RecordMinMax THEN newMax(v, maxVal, count1 = 1)
                ELSE maxVal
        bi == findBucket(v, config.Bounds)
        heap1 == [heap EXCEPT ![bucketCounts] = incrementBucket(@, bi)]
        exemplars1 == pushExemplar(exemplars, generateExemplar(v, currentTime))
        dataPoint == [StartTimeUnix |-> startTime, TimeUnix |-> currentTime,
                      Count |-> count1, Sum |-> sum1, Min |-> min1, Max |-> max1,
                      BucketCounts |-> bucketCounts, Exemplars |-> exemplars1]
    IN /\ value' = v
       /\ bucketIndex' = bi
       /\ recorded' = Append(recorded, generateExemplar(v, currentTime))
       /\ IF shouldReset
          THEN /\ startTime' = currentTime
               /\ count' = 0
               /\ sum' = 0
               /\ minVal' = 0
               /\ maxVal' = 0
               /\ heap' = Append(heap1, Zeros(Len(config.Bounds) + 1))
               /\ bucketCounts' = Len(heap1) + 1
               /\ exemplars' = << >>
          ELSE /\ startTime' = startTime
               /\ count' = count1
               /\ sum' = sum1
               /\ minVal' = min1
               /\ maxVal' = max1
               /\ heap' = heap1
               /\ bucketCounts' = bucketCounts
               /\ exemplars' = exemplars1
       /\ dataPoints' = Append(dataPoints, dataPoint)
       /\ steps' = histogramSteps
       /\ UNCHANGED <<zeroCount, positiveBuckets, negativeBuckets, i, index>>

\* select default, then c.Rate == 0 or selectTicker(ticker) found a tick
histogramIterate(limit) ==
    /\ kind = "histogram"
    /\ pc = "loop"
    /\ ~ctxDone
    /\ c.Rate = 0 \/ tick = 1
    /\ Len(recorded) < limit
    /\ tick' = IF c.Rate = 0 THEN tick ELSE 0
    /\ \E v \in generateHistogramValue(config.Bounds) : histogramRecord(v)
    /\ UNCHANGED <<cfgVars, pc, now, ticker, deadline, ctxDone>>

\* select default, selectTicker found nothing: block in <-ticker.C
histogramBlock ==
    /\ kind = "histogram"
    /\ pc = "loop"
    /\ ~ctxDone
    /\ c.Rate > 0
    /\ tick = 0
    /\ pc' = "wait"
    /\ UNCHANGED <<cfgVars, now, tick, ticker, deadline, ctxDone, stateVars>>

\* <-ticker.C returns: the tick is consumed and the loop starts over
histogramWake ==
    /\ kind = "histogram"
    /\ pc = "wait"
    /\ tick = 1
    /\ tick' = 0
    /\ pc' = "loop"
    /\ UNCHANGED <<cfgVars, now, ticker, deadline, ctxDone, stateVars>>

(***************************************************************************)
(* The exponential histogram worker.                                       *)
(***************************************************************************)
\* mutant: an index already in the map is not incremented
mapIncrementLost(m, k) ==
    IF k \in DOMAIN m THEN m ELSE m @@ (k :> 1)

\* positiveBuckets[index]++ and negativeBuckets[index]++
mapIncrement(m, k) ==
    IF k \in DOMAIN m THEN [m EXCEPT ![k] = @ + 1] ELSE m @@ (k :> 1)

exponentialHistogramStart ==
    /\ kind = "exponentialHistogram"
    /\ pc = "start"
    /\ IF Validate(<<c>>) # "nil" \/ c.Rate <= 0 \/ mp.instrumentErr
       THEN /\ pc' = "done"
            /\ UNCHANGED <<ticker, deadline, startTime, heap, positiveBuckets,
                           negativeBuckets>>
       ELSE IF tickerPanics(kind, c.Rate)
       THEN /\ pc' = "panic"
            /\ UNCHANGED <<ticker, deadline, startTime, heap, positiveBuckets,
                           negativeBuckets>>
       ELSE /\ pc' = "loop"
            /\ ticker' = NewTicker(tickerPeriod(kind, c.Rate), now)
            /\ deadline' = IF c.TotalDuration > 0
                           THEN WithTimeout(deadline, c.TotalDuration, now)
                           ELSE deadline
            /\ startTime' = now
            /\ heap' = heap \o <<EmptyMap, EmptyMap>>
            /\ positiveBuckets' = Len(heap) + 1
            /\ negativeBuckets' = Len(heap) + 2
    /\ UNCHANGED <<cfgVars, now, tick, ctxDone, count, sum, minVal, maxVal,
                   zeroCount, bucketCounts, exemplars, i, value, bucketIndex,
                   index, dataPoints, recorded, steps>>

\* select takes the ctx.Done() case
exponentialHistogramStop ==
    /\ kind = "exponentialHistogram"
    /\ pc = "loop"
    /\ ctxDone
    /\ pc' = "done"
    /\ UNCHANGED <<cfgVars, now, tick, ticker, deadline, ctxDone, stateVars>>

\* the operations of one pass in the order of their lines: min and max
\* (118-125), zeroCount or the bucket counter (127-136), totalCount and sum
\* (137-138), the exemplar (141-147), the data point (165-179), min and max
\* set to the value (181-182), the reset (185-195) and the call of
\* processExponentialHistogramDataPoint (197)
exponentialHistogramSteps ==
    <<"minmax", "bucket", "count", "exemplar", "snapshot", "minmax">>
        \o (IF shouldReset THEN <<"reset">> ELSE << >>) \o <<"emit">>

\* one pass of the case <-ticker.C: lines 115 to 197
exponentialHistogramRecord(v) ==
    LET currentTime == now
        min1 == IF config.RecordMinMax THEN newMin(v, minVal, count = 0)
                ELSE minVal
        max1 == IF config.RecordMinMax THEN newMax(v, maxVal, count = 0)
                ELSE maxVal
        isZero == inZeroBucket(v, config.ZeroThreshold)
        idx == mapToIndex(v, config.Scale)
        zeroCount1 == IF isZero THEN zeroCount + 1 ELSE zeroCount
        heap1 == IF isZero THEN heap
                 ELSE IF v >= 0
                      THEN [heap EXCEPT ![positiveBuckets] = mapIncrement(@, idx)]
                      ELSE [heap EXCEPT ![negativeBuckets] = mapIncrement(@, idx)]
        totalCount1 == count + 1
        sum1 == sum + v
        exemplars1 == pushExemplar(exemplars, generateExemplar(v, currentTime))
        dataPoint == [StartTimeUnix |-> startTime, TimeUnix |-> currentTime,
                      Count |-> totalCount1, Sum |-> sum1,
                      Scale |-> config.Scale, ZeroCount |-> zeroCount1,
                      PositiveBuckets |-> positiveBuckets,
                      NegativeBuckets |-> negativeBuckets,
                      Min |-> min1, Max |-> max1, Exemplars |-> exemplars1]
    IN /\ value' = v
       /\ index' = IF isZero THEN index ELSE idx
       /\ recorded' = Append(recorded, generateExemplar(v, currentTime))
       /\ IF shouldReset
          THEN /\ startTime' = currentTime
               /\ count' = 0
               /\ sum' = 0
               /\ minVal' = MaxFloat64
               /\ maxVal' = -MaxFloat64
               /\ zeroCount' = 0
               /\ heap' = heap1 \o <<EmptyMap, EmptyMap>>
               /\ positiveBuckets' = Len(heap1) + 1
               /\ negativeBuckets' = Len(heap1) + 2
               /\ exemplars' = << >>
          ELSE /\ startTime' = startTime
               /\ count' = totalCount1
               /\ sum' = sum1
               /\ minVal' = v
               /\ maxVal' = v
               /\ zeroCount' = zeroCount1
               /\ heap' = heap1
               /\ positiveBuckets' = positiveBuckets
               /\ negativeBuckets' = negativeBuckets
               /\ exemplars' = exemplars1
       /\ dataPoints' = Append(dataPoints, dataPoint)
       /\ steps' = exponentialHistogramSteps
       /\ UNCHANGED <<bucketCounts, i, bucketIndex>>

\* select takes the <-ticker.C case (also when ctx.Done() is ready too)
exponentialHistogramIterate(limit) ==
    /\ kind = "exponentialHistogram"
    /\ pc = "loop"
    /\ tick = 1
    /\ Len(recorded) < limit
    /\ tick' = 0
    /\ \E v \in generateExponentialHistogramValue(config.MaxSize,
                                                  config.ZeroThreshold) :
          exponentialHistogramRecord(v)
    /\ UNCHANGED <<cfgVars, pc, now, ticker, deadline, ctxDone>>

(***************************************************************************)
(* The sum, gauge and up-down-counter workers: they keep the exemplar list *)
(* and hand the value to the instrument; they build no data point.         *)
(***************************************************************************)
simpleKinds == {"sum", "gauge", "upDownCounter"}

\* the error of meter.RegisterCallback in the gauge worker: nil when the gauge
\* was created; either outcome for the gauge of a creation that failed
registerCallbackErrs == IF mp.instrumentErr THEN BOOLEAN ELSE {FALSE}

\* the sum and up-down-counter workers drop the error of the creation of
\* the instrument (counter, _ := ...) and go on; so does the gauge worker, which
\* returns when RegisterCallback fails
simpleStart ==
    /\ kind \in simpleKinds
    /\ pc = "start"
    /\ IF kind = "gauge" /\ (Validate(<<c>>) # "nil" \/ c.Rate < 0)
       THEN /\ pc' = "done"
            /\ UNCHANGED ticker
       ELSE \E registerErr \in registerCallbackErrs :
               IF kind = "gauge" /\ registerErr
               THEN /\ pc' = "done"
                    /\ UNCHANGED ticker
               ELSE IF c.Rate # 0 /\ tickerPanics(kind, c.Rate)
               THEN /\ pc' = "panic"
                    /\ UNCHANGED ticker
               ELSE /\ pc' = "loop"
                    /\ ticker' = IF c.Rate = 0 THEN ticker
                                 ELSE NewTicker(tickerPeriod(kind, c.Rate), now)
    /\ UNCHANGED <<cfgVars, now, tick, deadline, ctxDone, stateVars>>

simpleStop ==
    /\ kind \in simpleKinds
    /\ pc = "loop"
    /\ ctxDone
    /\ pc' = "done"
    /\ UNCHANGED <<cfgVars, now, tick, ticker, deadline, ctxDone, stateVars>>

\* the value of pass number n of the sum and up-down-counter workers
sumValue(n) == IF config.IsMonotonic THEN n ELSE (n % 100) - 50

upDownCounterValue(n) == (n % 200) - 100

simpleValues(n) ==
    IF kind = "sum" THEN {sumValue(n)}
    ELSE IF kind = "upDownCounter" THEN {upDownCounterValue(n)}
    ELSE generateGaugeValue(config.Min, config.Max)

\* the default case (c.Rate == 0) or the <-ticker.C case of the select
simpleIterate(limit) ==
    /\ kind \in simpleKinds
    /\ pc = "loop"
    /\ IF c.Rate = 0 THEN ~ctxDone /\ tick' = tick
                     ELSE tick = 1 /\ tick' = 0
    /\ Len(recorded) < limit
    /\ i' = IF kind = "gauge" THEN i ELSE i + 1
    /\ \E v \in simpleValues(i + 1) :
          /\ value' = v
          /\ exemplars' = pushExemplar(exemplars, generateExemplar(v, now))
          /\ recorded' = Append(recorded, generateExemplar(v, now))
    /\ UNCHANGED <<cfgVars, pc, now, ticker, deadline, ctxDone, startTime,
                   count, sum, minVal, maxVal, zeroCount, bucketCounts,
                   positiveBuckets, negativeBuckets, heap, bucketIndex, index,
                   dataPoints, steps>>

(***************************************************************************)
(* The specification of the five workers, one worker per behaviour.        *)
(***************************************************************************)
Kinds == {"histogram", "exponentialHistogram"} \cup simpleKinds

BoundsSet == {<< >>, <<10, 30>>, <<-10>>}
Scales == {-1, 0, 1}
Thresholds == {-1, 0, 1}
Sizes == {0, 100}
Rates == {0, 1 * Unit}

Init ==
    \/ InitWorker("histogram", HistogramConfigs(BoundsSet), Rates)
    \/ InitWorker("exponentialHistogram",
                  ExponentialHistogramConfigs(Scales, Thresholds, Sizes), Rates)
    \/ InitWorker("sum", SumConfigs, Rates)
    \/ InitWorker("gauge", GaugeConfigs({0, 10}), Rates)
    \/ InitWorker("upDownCounter", UpDownCounterConfigs, Rates)

Next ==
    \/ Tick(MaxTime)
    \/ Cancel
    \/ histogramStart
    \/ histogramStop
    \/ histogramIterate(MaxRecords)
    \/ histogramBlock
    \/ histogramWake
    \/ exponentialHistogramStart
    \/ exponentialHistogramStop
    \/ exponentialHistogramIterate(MaxRecords)
    \/ simpleStart
    \/ simpleStop
    \/ simpleIterate(MaxRecords)

Spec == Init /\ [][Next]_vars

(***************************************************************************)
(* The entry points.  A Simulate function checks the *Config it is handed, *)
(* copies it for the worker function and calls run, which builds a Worker  *)
(* and calls Worker.Run: Run puts a deadline on the context, starts the    *)
(* worker function in a goroutine (pc = "start") and waits for it; when    *)
(* the worker function has returned (pc = "done") Run and the Simulate     *)
(* function return (pc = "returned").  err is the error returned: "nil",   *)
(* the message of an error, "void" for SimulateSum, which returns nothing, *)
(* and "pending" until the return.                                         *)
(***************************************************************************)
Day == 86400 * Second

\* mutant: no default, a zero duration stays zero
totalDurationNoDefault(d) == d

\* Worker.Run: if w.totalDuration == 0 then 86400 * time.Second
totalDuration(d) == IF d = 0 THEN Day ELSE d

\* mutant: one goroutine per worker of the configuration
workerGoroutinesPerCount(cf) == cf[1].WorkerCount

\* Worker.Run: for i := 0; i < 1; i++ { w.wg.Add(1); go func() {...}() }
workerGoroutines(cf) == 1

\* run, NewWorker and Worker.Run up to wg.Wait(), for the *Config cf
run(cf) ==
    /\ deadline' = IF totalDuration(cf[1].TotalDuration) > 0
                   THEN WithTimeout(<< >>, totalDuration(cf[1].TotalDuration), now)
                   ELSE << >>
    /\ pc' = "start"
    /\ err' = err
    /\ goroutines' = goroutines + workerGoroutines(cf)

\* return before run is called
reject(message) ==
    /\ err' = message
    /\ pc' = "returned"
    /\ UNCHANGED <<conf, c, deadline, goroutines>>

\* if conf.Rate == 0 then conf.Rate = 1
defaultRate(cf) == IF cf[1].Rate = 0 THEN <<[cf[1] EXCEPT !.Rate = 1 * Unit]>> ELSE cf

entryVars ==
    <<kind, config, now, tick, ticker, ctxDone, stateVars, mp, workers, totalLogs>>

SimulateSum ==
    /\ kind = "sum"
    /\ pc = "entry"
    /\ IF conf = << >> THEN reject("void")
       ELSE IF conf[1].Rate < 0 THEN reject("void")
       ELSE /\ conf' = defaultRate(conf)
            /\ c' = conf'[1]
            /\ run(conf')
    /\ UNCHANGED entryVars

SimulateGauge ==
    /\ kind = "gauge"
    /\ pc = "entry"
    /\ IF conf = << >> THEN reject("config is nil, cannot run SimulateGauge")
       ELSE IF Validate(conf) # "nil" THEN reject(Validate(conf))
       ELSE IF conf[1].Rate < 0 THEN reject("rate must be non-negative")
       ELSE /\ conf' = conf
            /\ c' = conf[1]
            /\ run(conf)
    /\ UNCHANGED entryVars

SimulateUpDownCounter ==
    /\ kind = "upDownCounter"
    /\ pc = "entry"
    /\ IF conf = << >>
       THEN reject("config is nil, cannot run SimulateUpDownCounter")
       ELSE IF Validate(conf) # "nil" THEN reject(Validate(conf))
       ELSE IF conf[1].Rate < 0 THEN reject("rate must be non-negative")
       ELSE /\ conf' = defaultRate(conf)
            /\ c' = conf'[1]
            /\ run(conf')
    /\ UNCHANGED entryVars

SimulateHistogram ==
    /\ kind = "histogram"
    /\ pc = "entry"
    /\ IF conf = << >> THEN reject("config is nil, cannot run SimulateHistogram")
       ELSE IF Validate(conf) # "nil" THEN reject(Validate(conf))
       ELSE /\ conf' = conf
            /\ c' = conf[1]
            /\ run(conf)
    /\ UNCHANGED entryVars

SimulateExponentialHistogram ==
    /\ kind = "exponentialHistogram"
    /\ pc = "entry"
    /\ IF conf = << >>
       THEN reject("config is nil, cannot run SimulateExponentialHistogram")
       ELSE IF Validate(conf) # "nil" THEN reject(Validate(conf))
       ELSE /\ conf' = conf
            /\ c' = conf[1]
            /\ run(conf)
    /\ UNCHANGED entryVars

\* wg.Wait() returns when the worker function has returned; Run finds errChan
\* empty and returns nil, and so does the Simulate function
runReturn ==
    /\ pc = "done"
    /\ pc' = "returned"
    /\ err' = IF kind = "sum" THEN "void" ELSE "nil"
    /\ UNCHANGED <<conf, c, deadline, goroutines, entryVars>>

\* the ticker goes on after the clock of the model has stopped at its last
\* reading: a tick comes when the channel is empty
LateTick(limit) ==
    /\ tickTimes(limit) = {}
    /\ hasTicker
    /\ tick = 0
    /\ tick' = 1
    /\ UNCHANGED <<cfgVars, pc, now, ticker, deadline, ctxDone, stateVars>>

\* the zero value of Config
ZeroConfig ==
    [WorkerCount |-> 0, NumMetrics |-> 0, Rate |-> 0, TotalDuration |-> 0,
     ServiceName |-> "", Output |-> ""]

RunRates == {-1 * Unit, 0, Unit \div 2, 1 * Unit, 2 * Unit}
Durations == {-1 * Second, 0, 2 * Second}

\* the *Config a Simulate function can be handed: nil, or a Config with any
\* rate, duration, service name and output
RunConfs ==
    {<< >>} \cup
    {<<[NewConfig EXCEPT !.Rate = r, !.TotalDuration = d, !.ServiceName = n,
                         !.Output = o]>> :
        r \in RunRates, d \in Durations, n \in {"", "trazr-gen"},
        o \in {"", "terminal"}}

InitEntry(k, configs) ==
    /\ InitState(k, configs)
    /\ conf \in RunConfs
    /\ c = ZeroConfig
    /\ pc = "entry"
    /\ mp \in MeterProviders
    /\ goroutines = 0

InitRun ==
    \/ InitEntry("histogram", HistogramConfigs({<<0>>}))
    \/ InitEntry("exponentialHistogram",
                 ExponentialHistogramConfigs({0}, {0}, {0}))
    \/ InitEntry("sum", SumConfigs)
    \/ InitEntry("gauge", GaugeConfigs({0}))
    \/ InitEntry("upDownCounter", UpDownCounterConfigs)

WorkerNext(limit) ==
    \/ histogramStart
    \/ histogramStop
    \/ histogramIterate(limit)
    \/ histogramBlock
    \/ histogramWake
    \/ exponentialHistogramStart
    \/ exponentialHistogramStop
    \/ exponentialHistogramIterate(limit)
    \/ simpleStart
    \/ simpleStop
    \/ simpleIterate(limit)

NextRun ==
    \/ SimulateSum
    \/ SimulateGauge
    \/ SimulateUpDownCounter
    \/ SimulateHistogram
    \/ SimulateExponentialHistogram
    \/ runReturn
    \/ Tick(MaxRun)
    \/ LateTick(MaxRun)
    \/ WorkerNext(MaxRun)

SpecRun == InitRun /\ [][NextRun]_vars

\* time passes and the ticker ticks; the goroutine of the worker function and
\* the one waiting in Run are scheduled; a select whose Done case stays ready
\* takes it in the end
FairSpecRun ==
    /\ SpecRun
    /\ WF_vars(Tick(MaxRun))
    /\ WF_vars(LateTick(MaxRun))
    /\ WF_vars(WorkerNext(MaxRun))
    /\ WF_vars(histogramStop \/ exponentialHistogramStop \/ simpleStop)
    /\ WF_vars(runReturn)

(***************************************************************************)
(* Long runs for the exemplar list: the five workers with configurations   *)
(* whose generators have one outcome (the bound 0, MaxSize 0, Max = Min),  *)
(* so that a run is decided by its timestamps.  A throttled worker gets a  *)
(* clock of MaxTicks ticks and records at most as many values; an          *)
(* unthrottled one records up to MaxPushes values within MaxIdle steps of  *)
(* the clock.                                                              *)
(***************************************************************************)
ExemplarClock == IF c.Rate = 0 THEN MaxIdle ELSE MaxTicks

PushLimit == IF c.Rate = 0 THEN MaxPushes ELSE MaxTicks

InitExemplars ==
    \/ InitWorker("histogram", HistogramConfigs({<<0>>}), Rates)
    \/ InitWorker("exponentialHistogram",
                  ExponentialHistogramConfigs({0}, {0}, {0}), Rates)
    \/ InitWorker("sum", SumConfigs, Rates)
    \/ InitWorker("gauge", GaugeConfigs({0}), Rates)
    \/ InitWorker("upDownCounter", UpDownCounterConfigs, Rates)

NextExemplars ==
    \/ Tick(ExemplarClock)
    \/ Cancel
    \/ histogramStart
    \/ histogramStop
    \/ histogramIterate(PushLimit)
    \/ histogramBlock
    \/ histogramWake
    \/ exponentialHistogramStart
    \/ exponentialHistogramStop
    \/ exponentialHistogramIterate(PushLimit)
    \/ simpleStart
    \/ simpleStop
    \/ simpleIterate(PushLimit)

SpecExemplars == InitExemplars /\ [][NextExemplars]_vars

(***************************************************************************)
(* The end-to-end scenario of the histogram: the bounds                    *)
(* [1,5,10,25,50,100,250,500,1000] and up to MaxScenario values.           *)
(***************************************************************************)
ScenarioBounds == <<10, 50, 100, 250, 500, 1000, 2500, 5000, 10000>>

InitScenario ==
    /\ InitWorker("histogram", HistogramConfigs({ScenarioBounds}), {1 * Unit})
    /\ config.RecordMinMax

NextScenario ==
    \/ Tick(MaxScenario)
    \/ Cancel
    \/ histogramStart
    \/ histogramStop
    \/ histogramIterate(MaxScenario)
    \/ histogramBlock
    \/ histogramWake

SpecScenario == InitScenario /\ [][NextScenario]_vars

(***************************************************************************)
(* findBucket on its own: every ascending sequence of at most MaxBounds    *)
(* bounds drawn from BoundValues, and every value of BucketValues, which   *)
(* has the bounds themselves, values between them and values beyond both   *)
(* ends.                                                                   *)
(***************************************************************************)
BoundValues == {-10, 0, 10, 20, 30}
BucketValues == {-15, -10, -5, 0, 5, 10, 15, 20, 25, 30, 35}

Ascending(b) == \A k \in 1..(Len(b) - 1) : b[k] < b[k + 1]

AscendingBounds ==
    {b \in UNION {[1..n -> BoundValues] : n \in 0..MaxBounds} : Ascending(b)}

InitFindBucket ==
    InitWorker("histogram", HistogramConfigs(AscendingBounds), {1 * Unit})

applyFindBucket ==
    /\ pc \in {"start", "applied"}
    /\ pc' = "applied"
    /\ \E v \in BucketValues :
          /\ value' = v
          /\ bucketIndex' = findBucket(v, config.Bounds)
    /\ UNCHANGED <<cfgVars, now, tick, ticker, deadline, ctxDone, startTime,
                   count, sum, minVal, maxVal, zeroCount, bucketCounts,
                   positiveBuckets, negativeBuckets, heap, exemplars, i, index,
                   dataPoints, recorded, steps>>

NextFindBucket == applyFindBucket

SpecFindBucket == InitFindBucket /\ [][NextFindBucket]_vars

(***************************************************************************)
(* mapToIndex on its own: every scale of MapScales and every value whose   *)
(* magnitude is in Magnitudes, of either sign, and the value 0.  The       *)
(* magnitudes have powers of two on both sides of 1 and values between     *)
(* them.                                                                   *)
(***************************************************************************)
MapValues == {0} \cup Magnitudes \cup {-a : a \in Magnitudes}

InitMapToIndex ==
    InitWorker("exponentialHistogram",
               ExponentialHistogramConfigs(MapScales, {0}, {10}), {1 * Unit})

applyMapToIndex ==
    /\ pc \in {"start", "applied"}
    /\ pc' = "applied"
    /\ \E v \in MapValues :
          /\ value' = v
          /\ index' = mapToIndex(v, config.Scale)
    /\ UNCHANGED <<cfgVars, now, tick, ticker, deadline, ctxDone, startTime,
                   count, sum, minVal, maxVal, zeroCount, bucketCounts,
                   positiveBuckets, negativeBuckets, heap, exemplars, i,
                   bucketIndex, dataPoints, recorded, steps>>

NextMapToIndex == applyMapToIndex

SpecMapToIndex == InitMapToIndex /\ [][NextMapToIndex]_vars

(***************************************************************************)
(* Runs of the five Simulate functions with valid configurations that      *)
(* differ in WorkerCount and NumMetrics, for every rate of CountRates and   *)
(* the durations 0 and 2 s, with a MeterProvider that creates the          *)
(* instrument.                                                             *)
(***************************************************************************)
WorkerCounts == {0, 1, 3}
NumMetricsValues == {0, 1, 2}
CountRates == {0, 1 * Unit, 2 * Unit}

CountConfs ==
    {<<[NewConfig EXCEPT !.WorkerCount = w, !.NumMetrics = n, !.Rate = r,
                         !.TotalDuration = d]>> :
        w \in WorkerCounts, n \in NumMetricsValues, r \in CountRates,
        d \in {0, 2 * Second}}

InitCounts ==
    /\ \/ InitState("histogram", HistogramConfigs({<<0>>}))
       \/ InitState("exponentialHistogram",
                    ExponentialHistogramConfigs({0}, {0}, {0}))
       \/ InitState("sum", SumConfigs)
       \/ InitState("gauge", GaugeConfigs({0}))
       \/ InitState("upDownCounter", UpDownCounterConfigs)
    /\ conf \in CountConfs
    /\ c = ZeroConfig
    /\ pc = "entry"
    /\ mp = [instrumentErr |-> FALSE]
    /\ goroutines = 0

SpecCounts == InitCounts /\ [][NextRun]_vars

(***************************************************************************)
(* Config.Validate on its own: the nil pointer and every Config whose      *)
(* WorkerCount and NumMetrics are drawn from ValidateCounts, whose rate is *)
(* negative, zero, a fraction or whole, whose duration is negative, zero   *)
(* or positive and whose service name and output are empty or not.         *)
(***************************************************************************)
ValidateCounts == {-1, 0, 1}

ValidateConfs ==
    {<< >>} \cup
    {<<[WorkerCount |-> w, NumMetrics |-> n, Rate |-> r, TotalDuration |-> d,
        ServiceName |-> s, Output |-> o]>> :
        w \in ValidateCounts, n \in ValidateCounts,
        r \in {-1 * Unit, 0, Unit \div 2, 1 * Unit},
        d \in {-1 * Millisecond, 0, 1 * Second},
        s \in {"", "svc"}, o \in {"", "out"}}

InitValidate ==
    /\ InitState("histogram", {DefaultConfig})
    /\ conf \in ValidateConfs
    /\ c = ZeroConfig
    /\ pc = "entry"
    /\ mp = [instrumentErr |-> FALSE]
    /\ goroutines = 0

\* err := conf.Validate(): the receiver is read, never written
applyValidate ==
    /\ pc = "entry"
    /\ pc' = "applied"
    /\ err' = Validate(conf)
    /\ conf' = conf
    /\ UNCHANGED <<c, deadline, goroutines, entryVars>>

NextValidate == applyValidate

SpecValidate == InitValidate /\ [][NextValidate]_vars

(***************************************************************************)
(* Traces: Run of internal/traces and the goroutines it starts.  conf      *)
(* points to the traces Config.  workers[w] is worker number w: where it   *)
(* is in simulateTraces (pc), its pass counter (i) and the number of the   *)
(* scenario it is at.  pc is where Run is: "start" while it waits in       *)
(* wg.Wait(), "returned" after it, "exited" when a worker has called       *)
(* logger.Fatal, which ends the process.  A worker starts at most          *)
(* MaxPasses passes.                                                       *)
(***************************************************************************)
procVars == <<kind, config, conf, c, mp, tick, ticker, stateVars>>

TracesValidate(cf) ==
    IF cf[1].TotalDuration < 0 THEN "total duration must be non-negative"
    ELSE IF cf[1].NumTraces < 0 THEN "num traces must be non-negative"
    ELSE IF cf[1].WorkerCount < 0 THEN "worker count must be positive"
    ELSE IF cf[1].ServiceName = "" THEN "service name must not be empty"
    ELSE IF cf[1].Output = "" THEN "output must not be empty"
    ELSE IF cf[1].Rate < 0 THEN "rate must be non-negative (0 means unthrottled)"
    ELSE "nil"

TraceConfs ==
    {<<[WorkerCount |-> w, NumTraces |-> n, Rate |-> r, TotalDuration |-> d,
        ServiceName |-> "trazr-gen", Output |-> "terminal", Scenarios |-> s]>> :
        w \in {0, 1, 2}, n \in {-1, 0, 1, 2, 3}, r \in {0, 1 * Unit},
        d \in {0, 1 * Second},
        s \in {<< >>, <<"basic">>, <<"basic", "eventing">>}}

InitTraces ==
    /\ InitState("traces", {DefaultConfig})
    /\ conf \in TraceConfs
    /\ c = ZeroConfig
    /\ pc = "entry"
    /\ mp = [instrumentErr |-> FALSE]
    /\ goroutines = 0

\* Run up to wg.Wait(): the configuration is validated, the context gets its
\* deadline and one goroutine per worker is started
tracesRun ==
    /\ kind = "traces"
    /\ pc = "entry"
    /\ IF TracesValidate(conf) # "nil"
       THEN /\ err' = TracesValidate(conf)
            /\ pc' = "returned"
            /\ UNCHANGED <<deadline, workers, goroutines>>
       ELSE /\ err' = err
            /\ pc' = "start"
            /\ deadline' = IF conf[1].TotalDuration > 0
                           THEN WithTimeout(<< >>, conf[1].TotalDuration, now)
                           ELSE << >>
            /\ workers' = [w \in 1..conf[1].WorkerCount |->
                              [pc |-> "select", i |-> 0, scenario |-> 0]]
            /\ goroutines' = goroutines + conf[1].WorkerCount
    /\ UNCHANGED <<procVars, now, ctxDone, totalLogs>>

\* the end of a pass: i++; if w.numTraces == 0 || i < w.numTraces { break },
\* and after the loop wg.Done()
endPass(wk, numTraces) ==
    IF numTraces = 0 \/ wk.i + 1 < numTraces
    THEN [wk EXCEPT !.i = @ + 1, !.pc = "completed"]
    ELSE [wk EXCEPT !.i = @ + 1, !.pc = "select"]

\* the select at the top of the loop: the Done case, with wg.Done() and
\* return, when the context is done, else the default case and a new pass
tracesSelect(w) ==
    /\ kind = "traces"
    /\ pc = "start"
    /\ workers[w].pc = "select"
    /\ IF ctxDone
       THEN workers' = [workers EXCEPT ![w].pc = "stopped"]
       ELSE /\ workers[w].i < MaxPasses
            /\ workers' =
                  [workers EXCEPT ![w] =
                      IF conf[1].Scenarios = << >>
                      THEN endPass(@, conf[1].NumTraces)
                      ELSE [@ EXCEPT !.pc = "scenario", !.scenario = 1]]
    /\ UNCHANGED <<procVars, pc, err, deadline, goroutines, now, ctxDone,
                   totalLogs>>

\* limiter.Wait(ctx) fails when the context is done, and may fail when the
\* next token of a finite rate comes after the deadline of the context
waitErrs ==
    IF ctxDone THEN {TRUE}
    ELSE IF deadline # << >> /\ conf[1].Rate > 0 THEN BOOLEAN
    ELSE {FALSE}

\* one scenario of the pass: the span, runScenario and limiter.Wait(ctx),
\* whose error goes to logger.Fatal; after the last scenario the pass ends
tracesScenario(w) ==
    /\ kind = "traces"
    /\ pc = "start"
    /\ workers[w].pc = "scenario"
    /\ \E waitErr \in waitErrs :
          IF waitErr
          THEN /\ pc' = "exited"
               /\ UNCHANGED workers
          ELSE /\ pc' = pc
               /\ workers' =
                     [workers EXCEPT ![w] =
                         IF @.scenario < Len(conf[1].Scenarios)
                         THEN [@ EXCEPT !.scenario = @ + 1]
                         ELSE endPass(@, conf[1].NumTraces)]
    /\ UNCHANGED <<procVars, err, deadline, goroutines, now, ctxDone, totalLogs>>

\* wg.Wait() returns when every worker has called wg.Done(); Run returns nil
tracesReturn ==
    /\ kind = "traces"
    /\ pc = "start"
    /\ \A w \in DOMAIN workers : workers[w].pc \in {"stopped", "completed"}
    /\ pc' = "returned"
    /\ err' = "nil"
    /\ UNCHANGED <<procVars, deadline, workers, goroutines, now, ctxDone,
                   totalLogs>>

NextTraces ==
    \/ tracesRun
    \/ \E w \in DOMAIN workers : tracesSelect(w)
    \/ \E w \in DOMAIN workers : tracesScenario(w)
    \/ tracesReturn
    \/ Tick(MaxRun)

SpecTraces == InitTraces /\ [][NextTraces]_vars

(***************************************************************************)
(* Logs: Run of internal/logs and the goroutines it starts.  conf points   *)
(* to the logs Config.  workers[w] is worker number w: where it is in      *)
(* generateLogsWithContext (pc), when its time.Sleep ends (wake) and how   *)
(* many times it has added 1 to totalLogs (n).  A worker starts at most    *)
(* MaxLogs iterations.                                                     *)
(***************************************************************************)
SleepInterval == 100 * Millisecond

LogsValidate(cf) ==
    IF cf[1].Rate < 0 THEN "rate must be positive"
    ELSE IF cf[1].TotalDuration < 0 THEN "total duration must be non-negative"
    ELSE IF cf[1].NumLogs < 0 THEN "num logs must be non-negative"
    ELSE IF cf[1].WorkerCount < 0 THEN "worker count must be positive"
    ELSE IF cf[1].ServiceName = "" THEN "service name must not be empty"
    ELSE IF cf[1].Output = "" THEN "output must not be empty"
    ELSE "nil"

LogConfs ==
    {<<[WorkerCount |-> w, NumLogs |-> n, Rate |-> r, TotalDuration |-> d,
        ServiceName |-> "trazr-gen", Output |-> o]>> :
        w \in {0, 1, 2}, n \in {-1, 0, 1, 2}, r \in {0, 1 * Unit},
        d \in {0, 2 * SleepInterval + SleepInterval \div 2},
        o \in {"terminal", "localhost:4317"}}

InitLogs ==
    /\ InitState("logs", {DefaultConfig})
    /\ conf \in LogConfs
    /\ c = ZeroConfig
    /\ pc = "entry"
    /\ mp = [instrumentErr |-> FALSE]
    /\ goroutines = 0

\* createExporter and the Shutdown of the exporter and of the LoggerProvider:
\* the exporter of the terminal never fails, an OTLP exporter may
exporterErrs(cf) ==
    IF cf[1].Output \in {"stdout", "terminal"} THEN {FALSE} ELSE BOOLEAN

\* Run up to wg.Wait(): the configuration is validated, the exporter is
\* created, the context gets its deadline and one goroutine per worker is
\* started
logsRun ==
    /\ kind = "logs"
    /\ pc = "entry"
    /\ IF LogsValidate(conf) # "nil"
       THEN /\ err' = LogsValidate(conf)
            /\ pc' = "returned"
            /\ UNCHANGED <<deadline, workers, goroutines>>
       ELSE \E createErr \in exporterErrs(conf) :
               IF createErr
               THEN /\ err' = "failed to create exporter"
                    /\ pc' = "returned"
                    /\ UNCHANGED <<deadline, workers, goroutines>>
               ELSE /\ err' = err
                    /\ pc' = "start"
                    /\ deadline' = IF conf[1].TotalDuration > 0
                                   THEN WithTimeout(<< >>, conf[1].TotalDuration,
                                                    now)
                                   ELSE << >>
                    /\ workers' = [w \in 1..conf[1].WorkerCount |->
                                      [pc |-> "select", wake |-> 0, n |-> 0]]
                    /\ goroutines' = goroutines + conf[1].WorkerCount
    /\ UNCHANGED <<procVars, now, ctxDone, totalLogs>>

\* the select of generateLogsWithContext: the Done case and return when the
\* context is done, else the default case and time.Sleep begins
logsSelect(w) ==
    /\ kind = "logs"
    /\ pc = "start"
    /\ workers[w].pc = "select"
    /\ IF ctxDone
       THEN workers' = [workers EXCEPT ![w].pc = "stopped"]
       ELSE /\ workers[w].n < MaxLogs
            /\ workers' = [workers EXCEPT ![w].pc = "sleep",
                                          ![w].wake = now + SleepInterval]
    /\ UNCHANGED <<procVars, pc, err, deadline, goroutines, now, ctxDone,
                   totalLogs>>

\* time.Sleep returns and totalLogs.Add(1)
logsWake(w) ==
    /\ kind = "logs"
    /\ pc = "start"
    /\ workers[w].pc = "sleep"
    /\ now >= workers[w].wake
    /\ workers' = [workers EXCEPT ![w].pc = "select", ![w].n = @ + 1]
    /\ totalLogs' = totalLogs + 1
    /\ UNCHANGED <<procVars, pc, err, deadline, goroutines, now, ctxDone>>

\* the times at which something is due: the end of a sleep, the deadline
dueTimes ==
    {workers[w].wake : w \in {x \in DOMAIN workers : workers[x].pc = "sleep"}}
        \cup {deadline[k] : k \in DOMAIN deadline}

\* the clock moves to the next time at which something is due; a deadline
\* whose time has come closes Done
logsTick ==
    /\ kind = "logs"
    /\ pc = "start"
    /\ \E t \in dueTimes :
          /\ t > now
          /\ \A u \in dueTimes : u > now => t <= u
          /\ now' = t
          /\ ctxDone' = (ctxDone \/ (deadline # << >> /\ t >= deadline[1]))
    /\ UNCHANGED <<procVars, pc, err, deadline, workers, goroutines, totalLogs>>

\* wg.Wait() returns when every worker has returned; the deferred Shutdown
\* calls set the error of Run when they fail
logsReturn ==
    /\ kind = "logs"
    /\ pc = "start"
    /\ \A w \in DOMAIN workers : workers[w].pc = "stopped"
    /\ pc' = "returned"
    /\ \E shutdownErr \in exporterErrs(conf) :
          err' = IF shutdownErr THEN "failed to shutdown" ELSE "nil"
    /\ UNCHANGED <<procVars, deadline, workers, goroutines, now, ctxDone,
                   totalLogs>>

NextLogs ==
    \/ logsRun
    \/ \E w \in DOMAIN workers : logsSelect(w)
    \/ \E w \in DOMAIN workers : logsWake(w)
    \/ logsTick
    \/ logsReturn

SpecLogs == InitLogs /\ [][NextLogs]_vars

(***************************************************************************)
(* Views of the state used by the properties.                              *)
(***************************************************************************)
IsHistogram == kind = "histogram"
IsExponential == kind = "exponentialHistogram"

TypeOK ==
    /\ kind \in Kinds
    /\ pc \in {"entry", "start", "loop", "wait", "done", "returned", "applied",
              "panic", "exited"}
    /\ tick \in {0, 1}
    /\ now \in Nat
    /\ Len(recorded) <= MaxPushes + 1

Last(seq) == seq[Len(seq)]

Emitted == dataPoints # << >>

\* the bucket counters a histogram data point refers to, summed
HistogramBucketTotal(dp) == SumSeq(heap[dp.BucketCounts])

\* the signed bucket counters an exponential data point refers to, summed
ExponentialBucketTotal(dp) ==
    SumMap(heap[dp.PositiveBuckets]) + SumMap(heap[dp.NegativeBuckets])

(***************************************************************************)
(* C1.  Bucket conservation: in both histogram workers the data point just *)
(* emitted has the sum of its bucket counters, plus ZeroCount for the      *)
(* exponential histogram, equal to its Count, and the running state of the *)
(* worker satisfies the same equality after every pass of the loop.        *)
(***************************************************************************)
BucketConservation ==
    /\ IsHistogram /\ bucketCounts # 0 => SumSeq(heap[bucketCounts]) = count
    /\ IsHistogram /\ Emitted =>
          HistogramBucketTotal(Last(dataPoints)) = Last(dataPoints).Count
    /\ IsExponential /\ positiveBuckets # 0 =>
          SumMap(heap[positiveBuckets]) + SumMap(heap[negativeBuckets])
             + zeroCount = count
    /\ IsExponential /\ Emitted =>
          ExponentialBucketTotal(Last(dataPoints)) + Last(dataPoints).ZeroCount
             = Last(dataPoints).Count

\* a cumulative exponential histogram that has counted a zero-bucket value, a
\* positive and a negative one
BucketConservationWitness ==
    /\ IsExponential
    /\ Emitted
    /\ Last(dataPoints).Count = 3
    /\ Last(dataPoints).ZeroCount = 1
    /\ SumMap(heap[positiveBuckets]) = 1
    /\ SumMap(heap[negativeBuckets]) = 1

(***************************************************************************)
(* C3.  Delta reset: under Delta temporality, in both histogram workers,   *)
(* once a data point has been emitted and until the next value is recorded *)
(* the running state has count, sum and zeroCount 0 and every bucket       *)
(* counter 0 (both maps empty for the exponential histogram).              *)
(***************************************************************************)
DeltaReset ==
    config.Temporality = "Delta" /\ Emitted =>
        /\ count = 0
        /\ sum = 0
        /\ zeroCount = 0
        /\ exemplars = << >>
        /\ IsHistogram => heap[bucketCounts] = Zeros(Len(config.Bounds) + 1)
        /\ IsExponential => /\ heap[positiveBuckets] = EmptyMap
                            /\ heap[negativeBuckets] = EmptyMap

\* a delta histogram that has emitted a non-empty data point twice
DeltaResetWitness ==
    /\ IsHistogram
    /\ config.Temporality = "Delta"
    /\ Len(dataPoints) >= 2
    /\ Last(dataPoints).Count = 1
    /\ Last(dataPoints).Sum > 0
    /\ count = 0

(***************************************************************************)
(* C4.  Cumulative persistence: under Cumulative temporality, in both      *)
(* histogram workers, the k-th data point has Count = k, the running count *)
(* is the number of data points emitted (it never returns to 0), and every *)
(* data point has the same StartTimeUnix.                                  *)
(***************************************************************************)
CumulativePersistence ==
    config.Temporality = "Cumulative" /\ (IsHistogram \/ IsExponential) =>
        /\ count = Len(dataPoints)
        /\ \A k \in 1..Len(dataPoints) :
              /\ dataPoints[k].Count = k
              /\ dataPoints[k].StartTimeUnix = dataPoints[1].StartTimeUnix

\* three data points of a cumulative worker that started after time 0, the
\* last one emitted later than the first
CumulativePersistenceWitness ==
    /\ IsHistogram
    /\ config.Temporality = "Cumulative"
    /\ Len(dataPoints) = 3
    /\ dataPoints[3].Count = 3
    /\ dataPoints[3].TimeUnix > dataPoints[1].TimeUnix
    /\ dataPoints[3].StartTimeUnix > 0

(***************************************************************************)
(* C5.  First-sample min/max: with RecordMinMax, in both histogram         *)
(* workers, the data point of the first value of a window (Count = 1: at   *)
(* worker start and after every Delta reset) has Min = Max = that value,   *)
(* whatever its sign.                                                      *)
(***************************************************************************)
FirstSampleMinMax ==
    /\ (IsHistogram \/ IsExponential)
    /\ config.RecordMinMax
    /\ Emitted
    /\ Last(dataPoints).Count = 1
    => /\ Last(dataPoints).Min = value
       /\ Last(dataPoints).Max = value

\* a second window whose first value is negative, after a positive one
FirstSampleMinMaxWitness ==
    /\ IsExponential
    /\ config.RecordMinMax
    /\ config.Temporality = "Delta"
    /\ Len(dataPoints) = 2
    /\ dataPoints[1].Min > 0
    /\ value < 0
    /\ Last(dataPoints).Min = value
    /\ Last(dataPoints).Max = value

(***************************************************************************)
(* C2.  findBucket returns the smallest i with value <= b_i, or n when the *)
(* value exceeds every bound: the result lies in 0..n, the bound at the    *)
(* result (if any) is not exceeded, and every bound before it is.  A value *)
(* equal to a bound falls in that bound's bucket.                          *)
(***************************************************************************)
FindBucketSmallest ==
    pc = "applied" =>
        LET n == Len(config.Bounds)
        IN /\ bucketIndex \in 0..n
           /\ bucketIndex < n => value <= config.Bounds[bucketIndex + 1]
           /\ \A j \in 1..bucketIndex : value > config.Bounds[j]
           /\ \A j \in 1..n : value = config.Bounds[j] => bucketIndex = j - 1

\* a value equal to the second of three bounds, put in bucket 1
FindBucketSmallestWitness ==
    /\ pc = "applied"
    /\ Len(config.Bounds) = 3
    /\ value = config.Bounds[2]
    /\ bucketIndex = 1

(***************************************************************************)
(* C6.  Exemplar bound: in every metrics worker the exemplar list never    *)
(* holds more than 10 entries, and while nothing resets it (under          *)
(* Cumulative temporality) it holds exactly the exemplars of the last      *)
(* min(n, 10) of the n values recorded, in the order they were recorded.   *)
(***************************************************************************)
LastExemplars(n) == SubSeq(recorded, Len(recorded) - n + 1, Len(recorded))

ExemplarBound ==
    /\ Len(exemplars) <= 10
    /\ config.Temporality = "Cumulative" =>
          exemplars = LastExemplars(IF Len(recorded) < 10 THEN Len(recorded)
                                    ELSE 10)
    /\ Emitted /\ config.Temporality = "Cumulative" =>
          Last(dataPoints).Exemplars = exemplars

\* fifteen values recorded by the sum worker: the list holds the 6th to the
\* 15th
ExemplarBoundWitness ==
    /\ kind = "sum"
    /\ config.IsMonotonic
    /\ config.Temporality = "Cumulative"
    /\ Len(recorded) = 15
    /\ Len(exemplars) = 10
    /\ exemplars[1].Value = 6
    /\ exemplars[10].Value = 15

(***************************************************************************)
(* C7.  One counter per value: a pass of the exponential histogram worker  *)
(* increments zeroCount and leaves both maps alone when |value| <=         *)
(* ZeroThreshold; otherwise it increments the entry mapToIndex(value,      *)
(* scale) of PositiveBuckets when value > 0, of NegativeBuckets when       *)
(* value < 0, and leaves zeroCount and the other map alone.  In every case *)
(* the counters grow by exactly 1 in total.  The counters after the pass   *)
(* are those of the data point it emits.                                   *)
(***************************************************************************)
Bumped(before, after, k) ==
    /\ DOMAIN after = DOMAIN before \cup {k}
    /\ after[k] = (IF k \in DOMAIN before THEN before[k] ELSE 0) + 1
    /\ \A j \in DOMAIN before \ {k} : after[j] = before[j]

OneCounterPerValueStep ==
    IsExponential /\ Len(recorded') = Len(recorded) + 1 =>
        LET dp == Last(dataPoints')
            pos0 == heap[positiveBuckets]
            neg0 == heap[negativeBuckets]
            pos1 == heap'[dp.PositiveBuckets]
            neg1 == heap'[dp.NegativeBuckets]
            idx == mapToIndex(value', config.Scale)
        IN /\ dp.ZeroCount + SumMap(pos1) + SumMap(neg1)
                 = zeroCount + SumMap(pos0) + SumMap(neg0) + 1
           /\ Abs(value') <= config.ZeroThreshold =>
                 /\ dp.ZeroCount = zeroCount + 1
                 /\ pos1 = pos0
                 /\ neg1 = neg0
           /\ Abs(value') > config.ZeroThreshold /\ value' > 0 =>
                 /\ dp.ZeroCount = zeroCount
                 /\ Bumped(pos0, pos1, idx)
                 /\ neg1 = neg0
           /\ Abs(value') > config.ZeroThreshold /\ value' < 0 =>
                 /\ dp.ZeroCount = zeroCount
                 /\ pos1 = pos0
                 /\ Bumped(neg0, neg1, idx)

OneCounterPerValue == [][OneCounterPerValueStep]_vars

\* a negative value beyond the threshold counted a second time at its index,
\* after a value of the zero bucket
OneCounterPerValueWitness ==
    /\ IsExponential
    /\ config.ZeroThreshold = 1
    /\ Len(recorded) = 3
    /\ value < 0
    /\ Abs(value) > config.ZeroThreshold
    /\ zeroCount = 1
    /\ index \in DOMAIN heap[negativeBuckets]
    /\ heap[negativeBuckets][index] = 2
    /\ heap[positiveBuckets] = EmptyMap

(***************************************************************************)
(* C8.  Zero value: in the exponential histogram worker a recorded value   *)
(* equal to 0 is counted in zeroCount and in neither signed map, whatever  *)
(* the ZeroThreshold: a data point that covers only values equal to 0 has  *)
(* ZeroCount = Count and both maps empty.                                  *)
(***************************************************************************)
ZeroValueInZeroBucket ==
    /\ IsExponential
    /\ Emitted
    /\ \A k \in 1..Len(recorded) : recorded[k].Value = 0
    => /\ Last(dataPoints).ZeroCount = Last(dataPoints).Count
       /\ heap[Last(dataPoints).PositiveBuckets] = EmptyMap
       /\ heap[Last(dataPoints).NegativeBuckets] = EmptyMap

InFirstBucket(a, scale) ==
    /\ a >= Unit
    /\ IF scale >= 0
       THEN Pow(a, Pow(2, scale)) < 2 * Pow(Unit, Pow(2, scale))
       ELSE a < Pow(2, Pow(2, -scale)) * Unit

ScenarioValues == <<5, 30, 30, 120>>

Fed(values) ==
    /\ Len(recorded) = Len(values)
    /\ \A k \in 1..Len(values) : recorded[k].Value = values[k]

ScenarioAggregate ==
    IsHistogram /\ config.Temporality = "Delta" /\ Fed(ScenarioValues) =>
        LET dp == Last(dataPoints)
        IN /\ heap[dp.BucketCounts][1] = 1
           /\ heap[dp.BucketCounts][2] = 2
           /\ heap[dp.BucketCounts][3] = 1
           /\ dp.Count = 4
           /\ dp.Sum = 185
           /\ count = 0

(***************************************************************************)
(* C10 as amended: under Delta temporality the four values give four data  *)
(* points of Count 1, one per value, which add up to bucket 0 = 1,         *)
(* bucket 1 = 2, bucket 3 = 1 (12 exceeds the bound 10 of bucket 2), every *)
(* other bucket 0, count 4 and sum 18.5; the state after each emission has *)
(* count 0.                                                                *)
(***************************************************************************)
RECURSIVE SumOver(_, _)
SumOver(F(_), n) == IF n = 0 THEN 0 ELSE F(n) + SumOver(F, n - 1)

ScenarioDataPoints ==
    IsHistogram /\ config.Temporality = "Delta" /\ Fed(ScenarioValues) =>
        LET Count(k) == dataPoints[k].Count
            Sum(k) == dataPoints[k].Sum
            Bucket0(k) == heap[dataPoints[k].BucketCounts][1]
            Bucket1(k) == heap[dataPoints[k].BucketCounts][2]
            Bucket2(k) == heap[dataPoints[k].BucketCounts][3]
            Bucket3(k) == heap[dataPoints[k].BucketCounts][4]
            Total(k) == SumSeq(heap[dataPoints[k].BucketCounts])
        IN /\ Len(dataPoints) = 4
           /\ \A k \in 1..4 : Count(k) = 1 /\ Sum(k) = ScenarioValues[k]
           /\ SumOver(Count, 4) = 4
           /\ SumOver(Sum, 4) = 185
           /\ SumOver(Bucket0, 4) = 1
           /\ SumOver(Bucket1, 4) = 2
           /\ SumOver(Bucket2, 4) = 0
           /\ SumOver(Bucket3, 4) = 1
           /\ SumOver(Total, 4) = 4
           /\ count = 0
           /\ sum = 0

\* the four values fed under Delta temporality
ScenarioDataPointsWitness ==
    /\ IsHistogram
    /\ config.Temporality = "Delta"
    /\ config.Bounds = ScenarioBounds
    /\ Fed(ScenarioValues)
    /\ Len(dataPoints) = 4

(***************************************************************************)
(* C11.  Data point immutability: a data point, once emitted, is never     *)
(* changed: no later step changes the Count, Sum, Min, Max, Exemplars or   *)
(* the contents of the BucketCounts (PositiveBuckets and NegativeBuckets   *)
(* for the exponential histogram) of any data point emitted before it,     *)
(* under both temporalities.                                               *)
(***************************************************************************)
Contents(dp, h) ==
    IF "BucketCounts" \in DOMAIN dp
    THEN [dp EXCEPT !.BucketCounts = h[@]]
    ELSE [dp EXCEPT !.PositiveBuckets = h[@], !.NegativeBuckets = h[@]]

DataPointImmutableStep ==
    \A k \in 1..Len(dataPoints) :
        Contents(dataPoints'[k], heap') = Contents(dataPoints[k], heap)

DataPointImmutable == [][DataPointImmutableStep]_vars

(***************************************************************************)
(* C12.  Order within one iteration, as claimed: record, bucket            *)
(* assignment, exemplar push, emission of the data point to the sink, then *)
(* (Delta only) reset: the state is not reset before the data point has    *)
(* been handed to processHistogramDataPoint or                             *)
(* processExponentialHistogramDataPoint.  steps holds the operations of    *)
(* the last pass in the order they were executed.                          *)
(***************************************************************************)
Done(a) == \E k \in 1..Len(steps) : steps[k] = a

Before(a, b) ==
    \A j, k \in 1..Len(steps) : steps[j] = a /\ steps[k] = b => j < k

CumulativeFrameStep ==
    (IsHistogram \/ IsExponential) /\ config.Temporality = "Cumulative"
        /\ pc # "start" =>
        IF Len(recorded') = Len(recorded)
        THEN UNCHANGED <<count, sum, minVal, maxVal, zeroCount, startTime,
                         bucketCounts, positiveBuckets, negativeBuckets, heap>>
        ELSE LET dp == Last(dataPoints')
             IN /\ count' = count + 1
                /\ count' = dp.Count
                /\ sum' = dp.Sum
                /\ minVal' = dp.Min
                /\ maxVal' = dp.Max
                /\ startTime' = startTime
                /\ startTime' = dp.StartTimeUnix
                /\ IsHistogram => /\ bucketCounts' = bucketCounts
                                  /\ dp.BucketCounts = bucketCounts
                /\ IsExponential => /\ zeroCount' = dp.ZeroCount
                                    /\ positiveBuckets' = positiveBuckets
                                    /\ negativeBuckets' = negativeBuckets
                                    /\ dp.PositiveBuckets = positiveBuckets
                                    /\ dp.NegativeBuckets = negativeBuckets

CumulativeFrame == [][CumulativeFrameStep]_vars

(***************************************************************************)
(* C14.  Ticker period: the ticker of every metrics worker started with a  *)
(* rate r > 0 has the period 1/r seconds (r periods make one second), the  *)
(* exponential histogram worker like the others.                           *)
(***************************************************************************)
TickerPeriod ==
    ticker # << >> => ticker[1].period * Duration(c.Rate) = Second

(***************************************************************************)
(* C15.  Unthrottled loop: a Simulate function handed a valid config with  *)
(* rate 0 starts its worker with rate 0; the worker enters its loop        *)
(* without a ticker; every pass of the loop records one value (and, in the *)
(* histogram workers, emits one data point) without taking a tick and only *)
(* while the context is not done; and once the context is done the worker  *)
(* leaves the loop.                                                        *)
(***************************************************************************)
UnthrottledStep ==
    /\ pc = "entry" /\ pc' # pc /\ conf # << >> /\ Validate(conf) = "nil"
          /\ conf[1].Rate = 0
          => pc' = "start" /\ c'.Rate = 0
    /\ pc = "start" /\ pc' # pc /\ c.Rate = 0 /\ Validate(<<c>>) = "nil"
          => pc' = "loop" /\ ticker' = << >>
    /\ pc = "loop" /\ c.Rate = 0 /\ Len(recorded') # Len(recorded)
          => /\ Len(recorded') = Len(recorded) + 1
             /\ IsHistogram \/ IsExponential
                   => Len(dataPoints') = Len(dataPoints) + 1
             /\ tick' = tick
             /\ ~ctxDone
    /\ pc = "loop" /\ c.Rate = 0 /\ pc' # pc => ctxDone /\ pc' = "done"

Unthrottled == [][UnthrottledStep]_vars

(***************************************************************************)
(* C16.  One record per tick: in the explicit-bounds histogram worker with *)
(* rate > 0 every step that takes a tick out of the ticker's channel       *)
(* records exactly one value and emits exactly one data point.             *)
(***************************************************************************)
TickRecordedStep ==
    IsHistogram /\ c.Rate > 0 /\ tick = 1 /\ tick' = 0 =>
        /\ Len(recorded') = Len(recorded) + 1
        /\ Len(dataPoints') = Len(dataPoints) + 1

TickRecorded == [][TickRecordedStep]_vars

(***************************************************************************)
(* C17.  No iteration after cancellation: once the context is done no step *)
(* of any metrics worker records a value, also when a tick is in the       *)
(* ticker's channel at that moment.                                        *)
(***************************************************************************)
NoRecordAfterDoneStep == ctxDone => Len(recorded') = Len(recorded)

NoRecordAfterDone == [][NoRecordAfterDoneStep]_vars

(***************************************************************************)
(* C18.  Cancellation unblocks the wait: whenever the context is done      *)
(* while a metrics worker with a ticker waits for the next tick (none is   *)
(* in the channel), the worker can return at once: its return is enabled   *)
(* without a further tick.                                                 *)
(***************************************************************************)
workerReturn == histogramStop \/ exponentialHistogramStop \/ simpleStop

CancelUnblocksWait ==
    ctxDone /\ hasTicker /\ tick = 0 => ENABLED workerReturn

(***************************************************************************)
(* C19.  Bounded runs: Worker.Run gives the context the deadline now + 24  *)
(* hours when totalDuration is 0 and now + d when it is d > 0, and the     *)
(* worker function does not move it; the context is done only when that    *)
(* deadline has come; Run returns only after the worker function has       *)
(* returned; and every run started with a deadline ends: Run returns,      *)
(* unless the worker function panicked when it created its ticker (C26),   *)
(* which ends the process at once.                                         *)
(***************************************************************************)
RunDeadlineStep ==
    /\ pc = "entry" /\ pc' = "start" /\ conf'[1].TotalDuration >= 0 =>
          deadline' = <<now + (IF conf'[1].TotalDuration = 0
                               THEN 24 * 3600 * Second
                               ELSE conf'[1].TotalDuration)>>
    /\ pc # "entry" => deadline' = deadline
    /\ ctxDone' /\ ~ctxDone => deadline # << >> /\ now' >= deadline[1]
    /\ pc' = "done" /\ pc \in {"loop", "wait"} => ctxDone
    /\ pc' = "returned" /\ pc # "returned" => pc \in {"entry", "done"}
    /\ pc' = "returned" /\ pc = "entry" => recorded' = << >>

InvalidConfigRejected ==
    conf = << >> \/ Validate(conf) # "nil" =>
        /\ pc \in {"entry", "returned"}
        /\ recorded = << >>
        /\ pc = "returned" /\ kind # "sum" => err \notin {"nil", "pending"}

(***************************************************************************)
(* C21.  Config.Validate returns an error exactly when the config is nil,  *)
(* WorkerCount < 0, NumMetrics < 0, Rate < 0, TotalDuration < 0, the       *)
(* service name is empty or the output is empty; in particular it accepts  *)
(* zero for the rate, the duration, NumMetrics and WorkerCount; and the    *)
(* call leaves the config as it was.                                       *)
(***************************************************************************)
Invalid(cf) ==
    \/ cf = << >>
    \/ /\ cf # << >>
       /\ \/ cf[1].WorkerCount < 0
          \/ cf[1].NumMetrics < 0
          \/ cf[1].Rate < 0
          \/ cf[1].TotalDuration < 0
          \/ cf[1].ServiceName = ""
          \/ cf[1].Output = ""

ValidateContract ==
    /\ [](pc = "applied" => (err # "nil" <=> Invalid(conf)))
    /\ [][conf' = conf]_vars

\* Validate accepted a config whose rate, duration, NumMetrics and WorkerCount
\* are all zero
ValidateContractWitness ==
    /\ pc = "applied"
    /\ err = "nil"
    /\ conf # << >>
    /\ conf[1].Rate = 0
    /\ conf[1].TotalDuration = 0
    /\ conf[1].NumMetrics = 0
    /\ conf[1].WorkerCount = 0

(***************************************************************************)
(* C22.  Instrument creation failure: when the MeterProvider returns an    *)
(* error for the instrument, the worker function returns before it records *)
(* any value or emits any data point (it never enters its loop, and it     *)
(* does not panic), and Worker.Run returns normally all the same; this for *)
(* every metrics worker.                                                   *)
(***************************************************************************)
InstrumentErrorStops ==
    mp.instrumentErr =>
        /\ recorded = << >>
        /\ dataPoints = << >>
        /\ pc \notin {"loop", "wait", "panic"}
        /\ pc = "returned" /\ Validate(conf) = "nil" => err \in {"nil", "void"}

(***************************************************************************)
(* C23.  WorkerCount and NumMetrics are not read: for every valid config,  *)
(* whatever its WorkerCount and NumMetrics, Worker.Run starts exactly one  *)
(* worker goroutine; the context is done only at the deadline the duration *)
(* gives (24 hours for 0) and the worker leaves its loop only when the     *)
(* context is done, never because NumMetrics values were generated; a      *)
(* value is generated only on a tick of a ticker whose period the rate     *)
(* gives, or, with rate 0, on every pass; and a worker that has a tick (or *)
(* rate 0) and a live context can generate its next value however many it  *)
(* has generated.                                                          *)
(***************************************************************************)
iterate ==
    \/ histogramIterate(MaxRun)
    \/ exponentialHistogramIterate(MaxRun)
    \/ simpleIterate(MaxRun)

CountsIgnoredStep ==
    /\ pc = "entry" /\ pc' = "start" => goroutines' = 1
    /\ pc # "entry" => goroutines' = goroutines
    /\ ctxDone' /\ ~ctxDone =>
          now' >= (IF c.TotalDuration = 0 THEN 24 * 3600 * Second
                   ELSE c.TotalDuration)
    /\ pc \in {"loop", "wait"} /\ pc' \notin {"loop", "wait"} =>
          ctxDone /\ pc' = "done"
    /\ Len(recorded') # Len(recorded) =>
          /\ Len(recorded') = Len(recorded) + 1
          /\ IF c.Rate = 0 THEN ticker = << >>
             ELSE /\ tick = 1
                  /\ ticker[1].period =
                         (IF kind = "exponentialHistogram"
                          THEN (c.Rate \div Unit) * Second
                          ELSE Second \div (c.Rate \div Unit))

CumulativeMinMax ==
    (IsHistogram \/ IsExponential) /\ config.RecordMinMax
        /\ config.Temporality = "Cumulative" =>
        \A k \in 1..Len(dataPoints) :
            /\ \A j \in 1..k : /\ dataPoints[k].Min <= recorded[j].Value
                               /\ recorded[j].Value <= dataPoints[k].Max
            /\ \E j \in 1..k : dataPoints[k].Min = recorded[j].Value
            /\ \E j \in 1..k : dataPoints[k].Max = recorded[j].Value

(***************************************************************************)
(* C25.  The two versions of mapToIndex: for every scale and every nonzero *)
(* value, the version dividing by math.Log(base) and the version           *)
(* multiplying by Ldexp(Log2E, scale) return the same index, which is      *)
(* floor(log|value| / log base) for base = 2^(2^-scale); the index is the  *)
(* same for value and -value and is non-decreasing in |value|.             *)
(* ExactIndex is that floor computed on the rationals.                     *)
(***************************************************************************)
ExactIndex(a, scale) ==
    IF scale >= 0
    THEN FloorLog2(Pow(a, Pow(2, scale)), Pow(Unit, Pow(2, scale)))
    ELSE FloorLog2(a, Unit) \div Pow(2, -scale)

MapToIndexSignAndOrder ==
    IsExponential /\ pc = "applied" =>
        /\ index = mapToIndex(-value, config.Scale)
        /\ \A a \in Magnitudes :
              a <= Abs(value) => mapToIndex(a, config.Scale) <= index

MapToIndexVersionsAgree ==
    IsExponential /\ pc = "applied" /\ value # 0 =>
        /\ index = mapToIndexLdexp(value, config.Scale)
        /\ index = ExactIndex(Abs(value), config.Scale)
        /\ MapToIndexSignAndOrder

(***************************************************************************)
(* C26.  Fractional rates: for every rate > 0 that Config.Validate         *)
(* accepts, rates between 0 and 1 included, no worker panics when it       *)
(* creates its ticker, and the ticker of a worker that has one has a       *)
(* strictly positive period.                                               *)
(***************************************************************************)
TickerCreated ==
    Validate(conf) = "nil" /\ conf[1].Rate > 0 =>
        /\ pc # "panic"
        /\ ticker # << >> => ticker[1].period > 0

(***************************************************************************)
(* C27.  Delta data points cover one value: under Delta temporality every  *)
(* data point emitted by either histogram worker has Count 1, Sum equal to *)
(* the value recorded by its pass, exactly one counter equal to 1 (a       *)
(* bucket counter, or ZeroCount in the exponential worker) with all the    *)
(* others 0, and exactly one exemplar, whose Value is that value.  The     *)
(* counters are read in the slice or the maps the data point refers to.    *)
(***************************************************************************)
OneOfSeq(counts) ==
    \E j \in DOMAIN counts :
        /\ counts[j] = 1
        /\ \A k \in DOMAIN counts \ {j} : counts[k] = 0

SingleCounter(dp) ==
    IF IsHistogram THEN OneOfSeq(heap[dp.BucketCounts])
    ELSE LET pos == heap[dp.PositiveBuckets]
             neg == heap[dp.NegativeBuckets]
         IN \/ dp.ZeroCount = 1 /\ SumMap(pos) = 0 /\ SumMap(neg) = 0
            \/ dp.ZeroCount = 0 /\ OneOfSeq(pos) /\ SumMap(neg) = 0
            \/ dp.ZeroCount = 0 /\ SumMap(pos) = 0 /\ OneOfSeq(neg)

DeltaSingleValue ==
    (IsHistogram \/ IsExponential) /\ config.Temporality = "Delta" =>
        /\ Len(dataPoints) = Len(recorded)
        /\ \A k \in 1..Len(dataPoints) :
              /\ dataPoints[k].Count = 1
              /\ dataPoints[k].Sum = recorded[k].Value
              /\ SingleCounter(dataPoints[k])
              /\ Len(dataPoints[k].Exemplars) = 1
              /\ dataPoints[k].Exemplars[1].Value = recorded[k].Value

\* three delta data points of the exponential worker: a negative value, a
\* value of the zero bucket and a positive value
DeltaSingleValueWitness ==
    /\ IsExponential
    /\ config.Temporality = "Delta"
    /\ Len(dataPoints) = 3
    /\ recorded[1].Value < 0
    /\ OneOfSeq(heap[dataPoints[1].NegativeBuckets])
    /\ dataPoints[2].ZeroCount = 1
    /\ recorded[3].Value > 0
    /\ OneOfSeq(heap[dataPoints[3].PositiveBuckets])
    /\ dataPoints[3].Count = 1

(***************************************************************************)
(* C28.  Windows: in both histogram workers every data point has           *)
(* StartTimeUnix <= TimeUnix; under Delta temporality the StartTimeUnix of *)
(* every data point after the first is the TimeUnix of the data point      *)
(* emitted just before it, so that consecutive windows neither overlap nor *)
(* leave a gap.                                                            *)
(***************************************************************************)
WindowsAbut ==
    IsHistogram \/ IsExponential =>
        /\ \A k \in 1..Len(dataPoints) :
              dataPoints[k].StartTimeUnix <= dataPoints[k].TimeUnix
        /\ config.Temporality = "Delta" =>
              \A k \in 2..Len(dataPoints) :
                  dataPoints[k].StartTimeUnix = dataPoints[k - 1].TimeUnix

\* three delta data points emitted at three different times after the start
WindowsAbutWitness ==
    /\ IsHistogram
    /\ config.Temporality = "Delta"
    /\ Len(dataPoints) = 3
    /\ dataPoints[1].StartTimeUnix < dataPoints[1].TimeUnix
    /\ dataPoints[1].TimeUnix < dataPoints[2].TimeUnix
    /\ dataPoints[2].TimeUnix < dataPoints[3].TimeUnix
    /\ dataPoints[3].StartTimeUnix = dataPoints[2].TimeUnix

(***************************************************************************)
(* C29.  Passes of a traces worker: with NumTraces = n > 0 and no duration *)
(* a worker makes exactly n passes over its scenarios and then completes   *)
(* (it never has more than n passes behind it, and when it has completed   *)
(* it has n); with NumTraces = 0 it goes on until its context is done, so  *)
(* it never completes by leaving the loop.                                 *)
(***************************************************************************)
TracePasses ==
    kind = "traces" /\ TracesValidate(conf) = "nil" =>
        \A w \in DOMAIN workers :
            /\ conf[1].NumTraces > 0 /\ conf[1].TotalDuration = 0 =>
                  /\ workers[w].i <= conf[1].NumTraces
                  /\ workers[w].pc = "completed" =>
                        workers[w].i = conf[1].NumTraces
            /\ conf[1].NumTraces = 0 => workers[w].pc # "completed"

(***************************************************************************)
(* C30.  Iterations of a logs worker: with NumLogs = n > 0 and             *)
(* TotalDuration = 0 each worker generates n log iterations, so it never   *)
(* has more than n behind it, and Run returns only when every worker has   *)
(* its n.                                                                  *)
(***************************************************************************)
LogIterations ==
    kind = "logs" /\ LogsValidate(conf) = "nil"
    /\ conf[1].NumLogs > 0 /\ conf[1].TotalDuration = 0 =>
        \A w \in DOMAIN workers :
            /\ workers[w].n <= conf[1].NumLogs
            /\ pc = "returned" => workers[w].n = conf[1].NumLogs

====
